---- MODULE Spec2Model ----
(***************************************************************************)
(* MAC_Tracker: the location store (mac_addresses, mac_movements), the     *)
(* three upsert implementations (upsert_mac of mac_tracker.py, and the     *)
(* postgres and mongo branches of MACStorage.upsert_mac), the polling run  *)
(* of mac_tracker.py (main / process_device) and concurrent callers of     *)
(* MACStorage.upsert_mac.                                                  *)
(***************************************************************************)
EXTENDS Integers, Sequences, FiniteSets, TLC

\* ------------------------------------------------------------------ bounds
\* Timestamps returned by datetime.utcnow() are drawn from 0..MaxTime.
MaxTime == 1
\* Number of calls a client makes on the store in SpecStore.
MaxCalls == 3
\* Longest device inventory of a run in Spec.
MaxDevices == 2
\* Number of concurrent callers of MACStorage.upsert_mac in SpecConc.
NThreads == 2

\* Number of upserts given to the three implementations in SpecSides.
MaxSideCalls == 3
\* Longest MAC text given to mac_lookup.py in SpecLookup.
MaxText == 4

MACs == {"aa:bb:cc:dd:ee:01", "aa:bb:cc:dd:ee:02"}
Devices == {"sw1", "sw2"}
Interfaces == {"Gi0/1", "Gi0/2"}
Times == 0..MaxTime
Impls == {"tracker", "postgres", "mongo"}

VARIABLES
    impl,           \* which upsert implementation owns the store
    mac_addresses,  \* table / collection mac_addresses, rows in insertion order
    mac_movements,  \* table / collection mac_movements, rows in insertion order
    ncalls,         \* number of upsert calls made so far
    last,           \* arguments and outcome of the latest upsert call
    seen,           \* MACs for which some upsert call has returned normally
    origin,         \* per MAC: the place given by the first upsert call that
                    \* returned for it
    durable,        \* the tables as committed: what survives the process and
                    \* what other connections read
    pc,             \* position of main() of mac_tracker.py
    devices,        \* nb.dcim.devices.all()
    idx,            \* position of the for loop over devices
    mac_table,      \* items of mac_table not yet iterated by process_device
    now,            \* 'now' of the running process_device
    commits,        \* conn.commit() calls
    closes,         \* conn.close() calls
    polls,          \* per dispatched device: what get_mac_table gave
    attempts,       \* upsert_mac calls made by process_device, in order
    tpc,            \* per thread: position inside MACStorage.upsert_mac
    targs,          \* per thread: arguments of its call
    trow,           \* per thread: the row its lookup returned
    cursor,         \* self.cursor of MACStorage: the one cursor all callers use
    snmp,           \* what the agent of the polled device answers to the
                    \* three walks of get_mac_table
    text,           \* mac_lookup.py: the MAC text being converted
    side            \* per upsert implementation: its own tables, when the
                    \* three are run side by side

vars == <<impl, mac_addresses, mac_movements, ncalls, last, seen, origin,
          durable,
          pc, devices, idx, mac_table, now, commits, closes, polls, attempts,
          tpc, targs, trow, cursor, snmp, text, side>>

storeVars ==
    <<mac_addresses, mac_movements, ncalls, last, seen, origin, durable>>
runVars == <<pc, devices, idx, mac_table, now, commits, closes, polls, attempts>>
concVars == <<tpc, targs, trow, cursor>>
inputVars == <<snmp, text, side>>

\* ------------------------------------------------------------------ tables
Min(S) == CHOOSE x \in S : \A y \in S : x <= y

\* Indices of the rows WHERE mac = %s.
Matching(table, mac) == {i \in 1..Len(table) : table[i].mac = mac}

\* cursor.fetchone() / find_one: <<>> for None, else <<first matching row>>.
fetchone(table, mac) ==
    IF Matching(table, mac) = {} THEN <<>>
    ELSE <<table[Min(Matching(table, mac))]>>

AddrRow(mac, device, interface, first_seen, last_seen) ==
    [mac |-> mac, device |-> device, interface |-> interface,
     first_seen |-> first_seen, last_seen |-> last_seen]

MoveRow(mac, from_device, from_if, to_device, to_if, moved_at) ==
    [mac |-> mac, from_device |-> from_device, from_if |-> from_if,
     to_device |-> to_device, to_if |-> to_if, moved_at |-> moved_at]

\* The rows of a table for one MAC, in insertion order.
RowsOf(table, mac) == SelectSeq(table, LAMBDA r : r.mac = mac)

\* UPDATE mac_addresses SET last_seen = %s WHERE mac = %s  (every matching row)
sql_set_last_seen(table, mac, t) ==
    [i \in 1..Len(table) |->
        IF table[i].mac = mac THEN [table[i] EXCEPT !.last_seen = t]
        ELSE table[i]]

\* UPDATE mac_addresses SET device, interface, last_seen WHERE mac = %s
sql_set_location(table, mac, device, interface, t) ==
    [i \in 1..Len(table) |->
        IF table[i].mac = mac
        THEN [table[i] EXCEPT !.device = device, !.interface = interface,
                              !.last_seen = t]
        ELSE table[i]]

\* update_one({"mac": mac}, {"$set": {"last_seen": now}})  (first match only)
mongo_set_last_seen(coll, mac, t) ==
    IF Matching(coll, mac) = {} THEN coll
    ELSE [coll EXCEPT ![Min(Matching(coll, mac))].last_seen = t]

\* update_one({"mac": mac}, {"$set": {device, interface, last_seen}})
mongo_set_location(coll, mac, device, interface, t) ==
    IF Matching(coll, mac) = {} THEN coll
    ELSE [coll EXCEPT ![Min(Matching(coll, mac))] =
            [@ EXCEPT !.device = device, !.interface = interface,
                      !.last_seen = t]]

DB(addr, mov, ok) == [addr |-> addr, mov |-> mov, ok |-> ok]

\* ------------------------------------------------- mac_tracker.py upsert_mac
\* upsert_mac with the comparison of line 143 reduced to the device: a change
\* of interface on the same device is taken for "seen again".
upsert_mac_write_DeviceOnly(addr, mov, row, mac, device, interface, t) ==
    IF row # <<>>
    THEN IF row[1].device = device
         THEN DB(sql_set_last_seen(addr, mac, t), mov, TRUE)
         ELSE DB(sql_set_location(addr, mac, device, interface, t),
                 Append(mov, MoveRow(mac, row[1].device, row[1].interface,
                                     device, interface, t)),
                 TRUE)
    ELSE IF Matching(addr, mac) # {}
         THEN DB(addr, mov, FALSE)
         ELSE DB(Append(addr, AddrRow(mac, device, interface, t, t)), mov, TRUE)

\* upsert_mac whose INSERT of a new MAC is followed by a movement record.
upsert_mac_write_LogsFirstSighting(addr, mov, row, mac, device, interface, t) ==
    IF row # <<>>
    THEN IF row[1].device = device /\ row[1].interface = interface
         THEN DB(sql_set_last_seen(addr, mac, t), mov, TRUE)
         ELSE DB(sql_set_location(addr, mac, device, interface, t),
                 Append(mov, MoveRow(mac, row[1].device, row[1].interface,
                                     device, interface, t)),
                 TRUE)
    ELSE IF Matching(addr, mac) # {}
         THEN DB(addr, mov, FALSE)
         ELSE DB(Append(addr, AddrRow(mac, device, interface, t, t)),
                 Append(mov, MoveRow(mac, device, interface,
                                     device, interface, t)),
                 TRUE)

\* upsert_mac whose UPDATE on a move sets last_seen only: the movement is
\* logged and the location record stays where it was.
upsert_mac_write_KeepsOldLocation(addr, mov, row, mac, device, interface, t) ==
    IF row # <<>>
    THEN IF row[1].device = device /\ row[1].interface = interface
         THEN DB(sql_set_last_seen(addr, mac, t), mov, TRUE)
         ELSE DB(sql_set_last_seen(addr, mac, t),
                 Append(mov, MoveRow(mac, row[1].device, row[1].interface,
                                     device, interface, t)),
                 TRUE)
    ELSE IF Matching(addr, mac) # {}
         THEN DB(addr, mov, FALSE)
         ELSE DB(Append(addr, AddrRow(mac, device, interface, t, t)), mov, TRUE)

\* The statements after the SELECT, for the row it fetched.
upsert_mac_write(addr, mov, row, mac, device, interface, t) ==
    IF row # <<>>
    THEN IF row[1].device = device /\ row[1].interface = interface
         THEN DB(sql_set_last_seen(addr, mac, t), mov, TRUE)
         ELSE DB(sql_set_location(addr, mac, device, interface, t),
                 Append(mov, MoveRow(mac, row[1].device, row[1].interface,
                                     device, interface, t)),
                 TRUE)
    ELSE IF Matching(addr, mac) # {}
         THEN DB(addr, mov, FALSE)     \* mac TEXT UNIQUE: the INSERT raises
         ELSE DB(Append(addr, AddrRow(mac, device, interface, t, t)), mov, TRUE)

upsert_mac(addr, mov, mac, device, interface, t) ==
    upsert_mac_write(addr, mov, fetchone(addr, mac), mac, device, interface, t)

\* ------------------------------------- MACStorage.upsert_mac, postgres branch
\* The postgres branch with the comparison of line 67 reduced to the device:
\* a change of interface on the same device is taken for "seen again".
postgres_write_IgnoresInterface(addr, mov, row, mac, device, interface, t) ==
    IF row # <<>>
    THEN IF row[1].device = device
         THEN DB(sql_set_last_seen(addr, mac, t), mov, TRUE)
         ELSE DB(sql_set_location(addr, mac, device, interface, t),
                 Append(mov, MoveRow(mac, row[1].device, row[1].interface,
                                     device, interface, t)),
                 TRUE)
    ELSE IF Matching(addr, mac) # {}
         THEN DB(addr, mov, FALSE)
         ELSE DB(Append(addr, AddrRow(mac, device, interface, t, t)), mov, TRUE)

\* The postgres branch whose "seen again" UPDATE also sets first_seen.
postgres_write_ResetsFirstSeen(addr, mov, row, mac, device, interface, t) ==
    IF row # <<>>
    THEN IF row[1].device = device /\ row[1].interface = interface
         THEN DB([i \in 1..Len(addr) |->
                    IF addr[i].mac = mac
                    THEN [addr[i] EXCEPT !.first_seen = t, !.last_seen = t]
                    ELSE addr[i]], mov, TRUE)
         ELSE DB(sql_set_location(addr, mac, device, interface, t),
                 Append(mov, MoveRow(mac, row[1].device, row[1].interface,
                                     device, interface, t)),
                 TRUE)
    ELSE IF Matching(addr, mac) # {}
         THEN DB(addr, mov, FALSE)
         ELSE DB(Append(addr, AddrRow(mac, device, interface, t, t)), mov, TRUE)

\* The postgres branch without the comparison of line 67: every sighting of
\* a known MAC is taken for a move.
postgres_write_AlwaysMoved(addr, mov, row, mac, device, interface, t) ==
    IF row # <<>>
    THEN DB(sql_set_location(addr, mac, device, interface, t),
            Append(mov, MoveRow(mac, row[1].device, row[1].interface,
                                device, interface, t)),
            TRUE)
    ELSE IF Matching(addr, mac) # {}
         THEN DB(addr, mov, FALSE)
         ELSE DB(Append(addr, AddrRow(mac, device, interface, t, t)), mov, TRUE)

\* The statements after the SELECT, for the row it fetched.
postgres_write(addr, mov, row, mac, device, interface, t) ==
    IF row # <<>>
    THEN IF row[1].device = device /\ row[1].interface = interface
         THEN DB(sql_set_last_seen(addr, mac, t), mov, TRUE)
         ELSE DB(sql_set_location(addr, mac, device, interface, t),
                 Append(mov, MoveRow(mac, row[1].device, row[1].interface,
                                     device, interface, t)),
                 TRUE)
    ELSE IF Matching(addr, mac) # {}
         THEN DB(addr, mov, FALSE)     \* mac TEXT UNIQUE: the INSERT raises
         ELSE DB(Append(addr, AddrRow(mac, device, interface, t, t)), mov, TRUE)

\* ---------------------------------------- MACStorage.upsert_mac, mongo branch
\* The mongo branch that keeps one movement document per MAC: on a move it
\* replaces the MAC's movement document (replace_one with upsert) instead of
\* inserting a new one.
mongo_write_ReplacesMovement(addr, mov, existing, mac, device, interface, t) ==
    IF existing # <<>>
    THEN IF existing[1].device = device /\ existing[1].interface = interface
         THEN DB(mongo_set_last_seen(addr, mac, t), mov, TRUE)
         ELSE DB(mongo_set_location(addr, mac, device, interface, t),
                 Append(SelectSeq(mov, LAMBDA m : m.mac # mac),
                        MoveRow(mac, existing[1].device,
                                existing[1].interface,
                                device, interface, t)),
                 TRUE)
    ELSE DB(Append(addr, AddrRow(mac, device, interface, t, t)), mov, TRUE)

\* The mongo branch that, on a move, inserts the new location as a second
\* document instead of updating the existing one.
mongo_write_InsertsOnMove(addr, mov, existing, mac, device, interface, t) ==
    IF existing # <<>>
    THEN IF existing[1].device = device /\ existing[1].interface = interface
         THEN DB(mongo_set_last_seen(addr, mac, t), mov, TRUE)
         ELSE DB(Append(addr, AddrRow(mac, device, interface, t, t)),
                 Append(mov, MoveRow(mac, existing[1].device,
                                     existing[1].interface,
                                     device, interface, t)),
                 TRUE)
    ELSE DB(Append(addr, AddrRow(mac, device, interface, t, t)), mov, TRUE)

\* The statements after find_one, for the document it returned.
mongo_write(addr, mov, existing, mac, device, interface, t) ==
    IF existing # <<>>
    THEN IF existing[1].device = device /\ existing[1].interface = interface
         THEN DB(mongo_set_last_seen(addr, mac, t), mov, TRUE)
         ELSE DB(mongo_set_location(addr, mac, device, interface, t),
                 Append(mov, MoveRow(mac, existing[1].device,
                                     existing[1].interface,
                                     device, interface, t)),
                 TRUE)
    ELSE DB(Append(addr, AddrRow(mac, device, interface, t, t)), mov, TRUE)

\* DB_BACKEND selects the branch.
MACStorage_write(backend, addr, mov, row, mac, device, interface, t) ==
    IF backend = "postgres"
    THEN postgres_write(addr, mov, row, mac, device, interface, t)
    ELSE mongo_write(addr, mov, row, mac, device, interface, t)

MACStorage_upsert_mac(backend, addr, mov, mac, device, interface, t) ==
    MACStorage_write(backend, addr, mov, fetchone(addr, mac),
                     mac, device, interface, t)

\* One whole upsert by the implementation that owns the store.
Upsert(i, addr, mov, mac, device, interface, t) ==
    IF i = "tracker"
    THEN upsert_mac(addr, mov, mac, device, interface, t)
    ELSE MACStorage_upsert_mac(i, addr, mov, mac, device, interface, t)

\* The two tables as one value.
Tables(addr, mov) == [addr |-> addr, mov |-> mov]

\* What is committed after the statements of one upsert.  psycopg2 opens a
\* transaction with the first statement and nothing of it is committed until
\* conn.commit(); pymongo's insert_one / update_one are applied to the
\* collection at once (no session, no transaction).
WriteThrough(i, dur, addr, mov) ==
    IF i = "mongo" THEN Tables(addr, mov) ELSE dur

\* MACStorage.commit: "if DB_BACKEND == 'postgres': self.conn.commit()".
MACStorage_commit(backend, dur, addr, mov) ==
    IF backend = "postgres" THEN Tables(addr, mov) ELSE dur

\* conn.commit() of main (mac_tracker.py), or store.commit().
CommitBy(i, dur, addr, mov) ==
    IF i = "tracker" THEN Tables(addr, mov)
    ELSE MACStorage_commit(i, dur, addr, mov)

\* A (device, interface) pair reported for a MAC.
Sighting(mac, device, interface) ==
    [mac |-> mac, device |-> device, interface |-> interface]

\* The first sightings after a call for 'mac' has returned.
FirstSightings(first, known, mac, device, interface) ==
    IF mac \in known THEN first
    ELSE first \cup {Sighting(mac, device, interface)}

\* The tables of the three implementations, each empty.
NoSides == [i \in Impls |-> Tables(<<>>, <<>>)]

Call(mac, device, interface, t, ok) ==
    [mac |-> mac, device |-> device, interface |-> interface,
     now |-> t, ok |-> ok]

NoCall == Call("", "", "", 0, FALSE)

\* --------------------------------------------------- the store and a client
InitStore ==
    /\ mac_addresses = <<>>
    /\ mac_movements = <<>>
    /\ ncalls = 0
    /\ last = NoCall
    /\ seen = {}
    /\ origin = {}
    /\ durable = Tables(<<>>, <<>>)

InitRunIdle ==
    /\ pc = "idle"
    /\ devices = <<>>
    /\ idx = 1
    /\ mac_table = <<>>
    /\ now = 0
    /\ commits = 0
    /\ closes = 0
    /\ polls = <<>>
    /\ attempts = <<>>

\* One element of the iteration of nextCmd: a varBind (oid and value as
\* prettyPrint() gives them), or an errorIndication, an errorStatus, or an
\* exception raised by the iteration.
Response(kind, oid, val) == [kind |-> kind, oid |-> oid, val |-> val]

\* The answers of one device to the walks of PORT_MAP_OID,
\* IFINDEX_TO_NAME_OID and BRIDGE_MIB_PORT_OID.
Agent(ports, names, fdb) == [ports |-> ports, names |-> names, fdb |-> fdb]

\* No device is being walked.
NoAgent == Agent(<<>>, <<>>, <<>>)

\* The result set held by a cursor: none after connect and after a statement
\* that returns no rows (INSERT, UPDATE); the rows not yet fetched after a
\* SELECT.
ResultSet(has_result, rows) == [has_result |-> has_result, rows |-> rows]

NoResult == ResultSet(FALSE, <<>>)

InitConcIdle ==
    /\ tpc = [t \in 1..NThreads |-> "idle"]
    /\ targs = [t \in 1..NThreads |-> NoCall]
    /\ trow = [t \in 1..NThreads |-> <<>>]
    /\ cursor = NoResult

InitClient ==
    /\ impl \in Impls
    /\ InitStore
    /\ InitRunIdle
    /\ InitConcIdle
    /\ snmp = NoAgent
    /\ text = ""
    /\ side = NoSides

\* A call of upsert that returns normally.
ClientUpsert(mac, device, interface, t) ==
    /\ ncalls < MaxCalls
    /\ LET r == Upsert(impl, mac_addresses, mac_movements,
                       mac, device, interface, t)
       IN /\ r.ok
          /\ mac_addresses' = r.addr
          /\ mac_movements' = r.mov
          /\ durable' = WriteThrough(impl, durable, r.addr, r.mov)
    /\ ncalls' = ncalls + 1
    /\ last' = Call(mac, device, interface, t, TRUE)
    /\ seen' = seen \cup {mac}
    /\ origin' = FirstSightings(origin, seen, mac, device, interface)
    /\ UNCHANGED <<impl, inputVars, runVars, concVars>>

NextClient ==
    \E mac \in MACs, device \in Devices, interface \in Interfaces, t \in Times :
        ClientUpsert(mac, device, interface, t)

SpecStore == InitClient /\ [][NextClient]_vars

\* ------------------------------- the three implementations side by side
\* Each implementation has its own tables, empty at first, and is given the
\* same upserts.  upsert_mac of mac_tracker.py takes 'now' from its caller;
\* MACStorage.upsert_mac reads datetime.utcnow() itself (line 60).  Neither
\* clock goes back.
\* The places reported side by side: any two of them differ in the
\* interface only, in the device only, or in both.
SidePlaces ==
    {[device |-> "sw1", interface |-> "Gi0/1"],
     [device |-> "sw1", interface |-> "Gi0/2"],
     [device |-> "sw2", interface |-> "Gi0/2"]}

InitSides ==
    /\ impl = "tracker"
    /\ InitStore
    /\ InitRunIdle
    /\ InitConcIdle
    /\ snmp = NoAgent
    /\ text = ""
    /\ side = NoSides

SideUpsert(mac, device, interface, t, u) ==
    /\ ncalls < MaxSideCalls
    /\ t >= last.now
    /\ u >= now
    /\ LET r == [i \in Impls |->
                   Upsert(i, side[i].addr, side[i].mov, mac, device,
                          interface, IF i = "tracker" THEN t ELSE u)]
       IN /\ \A i \in Impls : r[i].ok
          /\ side' = [i \in Impls |-> Tables(r[i].addr, r[i].mov)]
    /\ ncalls' = ncalls + 1
    /\ last' = Call(mac, device, interface, t, TRUE)
    /\ now' = u
    /\ UNCHANGED <<impl, mac_addresses, mac_movements, seen, origin, durable,
                   concVars, snmp, text, pc, devices, idx, mac_table,
                   commits, closes, polls, attempts>>

NextSides ==
    \E mac \in MACs, place \in SidePlaces, t \in Times, u \in Times :
        SideUpsert(mac, place.device, place.interface, t, u)

SpecSides == InitSides /\ [][NextSides]_vars

\* ----------------------------------- one session of a client of the store
\* A process opens the store, makes its upserts, commits once and closes
\* (the shape of main: lines 178-192), or dies before the commit.  The
\* readings of the clock of one process do not go back.
InitSession ==
    /\ impl \in Impls
    /\ InitStore
    /\ InitConcIdle
    /\ snmp = NoAgent
    /\ text = ""
    /\ side = NoSides
    /\ pc = "session"
    /\ devices = <<>>
    /\ idx = 1
    /\ mac_table = <<>>
    /\ now = 0
    /\ commits = 0
    /\ closes = 0
    /\ polls = <<>>
    /\ attempts = <<>>

SessionUpsert(mac, device, interface, t) ==
    /\ pc = "session"
    /\ t >= now
    /\ ncalls < MaxCalls
    /\ LET r == Upsert(impl, mac_addresses, mac_movements,
                       mac, device, interface, t)
       IN /\ r.ok
          /\ mac_addresses' = r.addr
          /\ mac_movements' = r.mov
          /\ durable' = WriteThrough(impl, durable, r.addr, r.mov)
    /\ ncalls' = ncalls + 1
    /\ last' = Call(mac, device, interface, t, TRUE)
    /\ seen' = seen \cup {mac}
    /\ origin' = FirstSightings(origin, seen, mac, device, interface)
    /\ now' = t
    /\ UNCHANGED <<impl, inputVars, concVars, pc, devices, idx, mac_table,
                   commits, closes, polls, attempts>>

\* conn.commit() / store.commit()
SessionCommit ==
    /\ pc = "session"
    /\ commits' = commits + 1
    /\ durable' = CommitBy(impl, durable, mac_addresses, mac_movements)
    /\ pc' = "close"
    /\ UNCHANGED <<impl, inputVars, mac_addresses, mac_movements, ncalls, last, seen,
                   origin,
                   concVars, devices, idx, mac_table, now,
                   closes, polls, attempts>>

\* cursor.close(); conn.close() / store.close()
SessionClose ==
    /\ pc = "close"
    /\ closes' = closes + 1
    /\ pc' = "done"
    /\ UNCHANGED <<impl, inputVars, storeVars, concVars, devices, idx, mac_table, now,
                   commits, polls, attempts>>

\* The process ends before the commit (an exception reaches the except
\* clause of main, or the process is killed): the connection is dropped and
\* an open transaction is rolled back by the server.
SessionAborts ==
    /\ pc = "session"
    /\ pc' = "fatal"
    /\ UNCHANGED <<impl, inputVars, storeVars, concVars, devices, idx, mac_table, now,
                   commits, closes, polls, attempts>>

NextSession ==
    \/ \E mac \in MACs, device \in Devices, interface \in Interfaces,
          t \in Times : SessionUpsert(mac, device, interface, t)
    \/ SessionCommit
    \/ SessionClose
    \/ SessionAborts

SpecSession == InitSession /\ [][NextSession]_vars

\* ------------------------------------------- mac_tracker.py: main, the run
\* The forwarding table is walked in OID order, so the items of mac_table
\* (a dict, iterated in insertion order) come in ascending MAC order.
MacOrder == <<"aa:bb:cc:dd:ee:01", "aa:bb:cc:dd:ee:02">>

Item(mac, interface) == [mac |-> mac, interface |-> interface]

\* What get_mac_table can return: any sub-table (an early end of a walk gives
\* a partial one), each MAC on any interface.
MacTables ==
    {<<>>}
    \cup {<<Item(MacOrder[k], i)>> : k \in 1..Len(MacOrder), i \in Interfaces}
    \cup {<<Item(MacOrder[1], i), Item(MacOrder[2], j)>> :
            i \in Interfaces, j \in Interfaces}

Device(name, primary_ip4) == [name |-> name, primary_ip4 |-> primary_ip4]

\* The name of a device without primary_ip4 is never read (line 186), so one
\* such record stands for all of them.
DeviceRecords ==
    {Device(n, TRUE) : n \in Devices} \cup {Device("sw1", FALSE)}

\* What nb.dcim.devices.all() can return (entries may repeat).
Inventories ==
    UNION {[1..n -> DeviceRecords] : n \in 0..MaxDevices}

Poll(k, ok, table) == [idx |-> k, ok |-> ok, table |-> table]

Attempt(k, mac, interface, ok) ==
    [idx |-> k, mac |-> mac, interface |-> interface, ok |-> ok]

Init ==
    /\ impl = "tracker"
    /\ InitStore
    /\ InitConcIdle
    /\ snmp = NoAgent
    /\ text = ""
    /\ side = NoSides
    /\ pc = "start"
    /\ devices = <<>>
    /\ idx = 1
    /\ mac_table = <<>>
    /\ now = 0
    /\ commits = 0
    /\ closes = 0
    /\ polls = <<>>
    /\ attempts = <<>>

\* psycopg2.connect, conn.cursor, ensure_tables.
Connect ==
    /\ pc = "start"
    /\ pc' = "inventory"
    /\ UNCHANGED <<impl, inputVars, storeVars, concVars, devices, idx, mac_table, now,
                   commits, closes, polls, attempts>>

\* psycopg2.connect raises: "Fatal error in main".
ConnectRaises ==
    /\ pc = "start"
    /\ pc' = "fatal"
    /\ UNCHANGED <<impl, inputVars, storeVars, concVars, devices, idx, mac_table, now,
                   commits, closes, polls, attempts>>

\* devices = nb.dcim.devices.all()
GetDevices ==
    /\ pc = "inventory"
    /\ devices' \in Inventories
    /\ idx' = 1
    /\ pc' = "loop"
    /\ UNCHANGED <<impl, inputVars, storeVars, concVars, mac_table, now,
                   commits, closes, polls, attempts>>

\* The inventory cannot be obtained: "Fatal error in main".
GetDevicesRaises ==
    /\ pc = "inventory"
    /\ pc' = "fatal"
    /\ UNCHANGED <<impl, inputVars, storeVars, concVars, devices, idx, mac_table, now,
                   commits, closes, polls, attempts>>

\* for device in devices: if device.primary_ip4 (false)
SkipDevice ==
    /\ pc = "loop"
    /\ idx <= Len(devices)
    /\ ~devices[idx].primary_ip4
    /\ idx' = idx + 1
    /\ UNCHANGED <<impl, inputVars, storeVars, concVars, pc, devices, mac_table, now,
                   commits, closes, polls, attempts>>

\* process_device: get_mac_table returns, now = datetime.utcnow().  Within
\* one run the successive readings of the clock do not go back.
GetMacTableReturns ==
    /\ pc = "loop"
    /\ idx <= Len(devices)
    /\ devices[idx].primary_ip4
    /\ \E table \in MacTables, t \in Times :
          /\ t >= now
          /\ mac_table' = table
          /\ now' = t
          /\ polls' = Append(polls, Poll(idx, TRUE, table))
    /\ pc' = "upserting"
    /\ UNCHANGED <<impl, inputVars, storeVars, concVars, devices, idx,
                   commits, closes, attempts>>

\* process_device without its try/except: the exception of get_mac_table
\* reaches the except clause of main.
GetMacTableRaises_Propagates ==
    /\ pc = "loop"
    /\ idx <= Len(devices)
    /\ devices[idx].primary_ip4
    /\ polls' = Append(polls, Poll(idx, FALSE, <<>>))
    /\ pc' = "fatal"
    /\ UNCHANGED <<impl, inputVars, storeVars, concVars, idx, devices, mac_table, now,
                   commits, closes, attempts>>

\* The try/except placed around the loop of main instead of inside
\* process_device: the first failing device ends the loop.
GetMacTableRaises_EndsLoop ==
    /\ pc = "loop"
    /\ idx <= Len(devices)
    /\ devices[idx].primary_ip4
    /\ polls' = Append(polls, Poll(idx, FALSE, <<>>))
    /\ idx' = Len(devices) + 1
    /\ UNCHANGED <<impl, inputVars, storeVars, concVars, pc, devices, mac_table, now,
                   commits, closes, attempts>>

\* process_device: get_mac_table raises; the except clause logs and the
\* function returns to the loop of main.
GetMacTableRaises ==
    /\ pc = "loop"
    /\ idx <= Len(devices)
    /\ devices[idx].primary_ip4
    /\ polls' = Append(polls, Poll(idx, FALSE, <<>>))
    /\ idx' = idx + 1
    /\ UNCHANGED <<impl, inputVars, storeVars, concVars, pc, devices, mac_table, now,
                   commits, closes, attempts>>

\* One iteration of "for mac, interface in mac_table.items()": upsert_mac
\* returns.
UpsertNext ==
    /\ pc = "upserting"
    /\ mac_table # <<>>
    /\ LET it == Head(mac_table)
           r == upsert_mac(mac_addresses, mac_movements, it.mac,
                           devices[idx].name, it.interface, now)
       IN /\ r.ok
          /\ mac_addresses' = r.addr
          /\ mac_movements' = r.mov
          /\ last' = Call(it.mac, devices[idx].name, it.interface, now, TRUE)
          /\ seen' = seen \cup {it.mac}
          /\ origin' = FirstSightings(origin, seen, it.mac,
                                      devices[idx].name, it.interface)
          /\ attempts' =
               Append(attempts, Attempt(idx, it.mac, it.interface, TRUE))
    /\ ncalls' = ncalls + 1
    /\ mac_table' = Tail(mac_table)
    /\ UNCHANGED <<impl, inputVars, concVars, durable, pc, devices, idx, now, commits,
                   closes, polls>>

\* One iteration in which upsert_mac raises (cursor.execute fails): the
\* exception leaves the for loop and is caught by the except clause of
\* process_device, which returns.
UpsertRaises ==
    /\ pc = "upserting"
    /\ mac_table # <<>>
    /\ LET it == Head(mac_table)
       IN /\ last' = Call(it.mac, devices[idx].name, it.interface, now, FALSE)
          /\ attempts' =
               Append(attempts, Attempt(idx, it.mac, it.interface, FALSE))
    /\ ncalls' = ncalls + 1
    /\ mac_table' = <<>>
    /\ idx' = idx + 1
    /\ pc' = "loop"
    /\ UNCHANGED <<impl, inputVars, concVars, mac_addresses, mac_movements, seen,
                   origin, durable,
                   devices, now, commits, closes, polls>>

\* The for loop of process_device is exhausted.
DeviceDone ==
    /\ pc = "upserting"
    /\ mac_table = <<>>
    /\ idx' = idx + 1
    /\ pc' = "loop"
    /\ UNCHANGED <<impl, inputVars, storeVars, concVars, devices, mac_table, now,
                   commits, closes, polls, attempts>>

\* conn.commit(), after the loop over devices.
Commit ==
    /\ pc = "loop"
    /\ idx > Len(devices)
    /\ commits' = commits + 1
    /\ durable' = CommitBy(impl, durable, mac_addresses, mac_movements)
    /\ pc' = "close"
    /\ UNCHANGED <<impl, inputVars, mac_addresses, mac_movements, ncalls, last, seen,
                   origin,
                   concVars, devices, idx, mac_table, now,
                   closes, polls, attempts>>

\* cursor.close(); conn.close()
Close ==
    /\ pc = "close"
    /\ closes' = closes + 1
    /\ pc' = "done"
    /\ UNCHANGED <<impl, inputVars, storeVars, concVars, devices, idx, mac_table, now,
                   commits, polls, attempts>>

Next ==
    \/ Connect
    \/ ConnectRaises
    \/ GetDevices
    \/ GetDevicesRaises
    \/ SkipDevice
    \/ GetMacTableReturns
    \/ GetMacTableRaises
    \/ UpsertNext
    \/ UpsertRaises
    \/ DeviceDone
    \/ Commit
    \/ Close

Spec == Init /\ [][Next]_vars

\* ------------------------------ concurrent callers of MACStorage.upsert_mac
\* MACStorage holds no lock and opens no transaction per call: between the
\* lookup of one caller and the statements that follow it, the statements of
\* other callers can run.  Each statement is atomic; the statements after the
\* lookup are taken as one step.  The postgres branch runs every statement of
\* every caller on the one cursor made by __init__, so execute and fetchone
\* of different callers interleave on it.
Threads == 1..NThreads

\* The two (device, interface) pairs the concurrent callers report.
PlaceA == [device |-> "sw1", interface |-> "Gi0/1"]
PlaceB == [device |-> "sw2", interface |-> "Gi0/2"]
ConcPlaces == {PlaceA, PlaceB}

\* The store the callers find: empty, or as one earlier upsert of the first
\* MAC on PlaceA, committed, left it.  ncalls, last and seen describe that
\* earlier call and are not touched by the concurrent callers.
InitConc ==
    /\ impl \in {"postgres", "mongo"}
    /\ InitRunIdle
    /\ InitConcIdle
    /\ snmp = NoAgent
    /\ text = ""
    /\ side = NoSides
    /\ \/ InitStore
       \/ LET c == Call(MacOrder[1], PlaceA.device, PlaceA.interface, 0, TRUE)
              r == MACStorage_upsert_mac(impl, <<>>, <<>>, c.mac, c.device,
                                         c.interface, c.now)
          IN /\ mac_addresses = r.addr
             /\ mac_movements = r.mov
             /\ ncalls = 1
             /\ last = c
             /\ seen = {c.mac}
             /\ origin = {Sighting(c.mac, c.device, c.interface)}
             /\ durable = Tables(r.addr, r.mov)

\* A thread calls upsert_mac(mac, device, interface): now = datetime.utcnow().
Begin(th) ==
    /\ tpc[th] = "idle"
    /\ \E mac \in MACs, place \in ConcPlaces, t \in Times :
          targs' = [targs EXCEPT
                      ![th] = Call(mac, place.device, place.interface, t, TRUE)]
    /\ tpc' = [tpc EXCEPT ![th] = "lookup"]
    /\ UNCHANGED <<impl, inputVars, storeVars, runVars, trow, cursor>>

\* mongo: existing = self.mac_col.find_one({"mac": mac}), one call on the
\* thread-safe client.
Lookup(th) ==
    /\ impl = "mongo"
    /\ tpc[th] = "lookup"
    /\ trow' = [trow EXCEPT ![th] = fetchone(mac_addresses, targs[th].mac)]
    /\ tpc' = [tpc EXCEPT ![th] = "write"]
    /\ UNCHANGED <<impl, inputVars, storeVars, runVars, targs, cursor>>

\* postgres: cur.execute("SELECT ... WHERE mac = %s") on the shared cursor;
\* the result set replaces whatever the cursor held.
Execute(th) ==
    /\ impl = "postgres"
    /\ tpc[th] = "lookup"
    /\ cursor' = ResultSet(TRUE, RowsOf(mac_addresses, targs[th].mac))
    /\ tpc' = [tpc EXCEPT ![th] = "fetch"]
    /\ UNCHANGED <<impl, inputVars, storeVars, runVars, targs, trow>>

\* postgres: row = cur.fetchone() on the shared cursor: the next row of the
\* result set the cursor holds now (None when exhausted); it raises
\* ProgrammingError when the cursor holds no result set.
Fetch(th) ==
    /\ impl = "postgres"
    /\ tpc[th] = "fetch"
    /\ IF ~cursor.has_result
       THEN /\ tpc' = [tpc EXCEPT ![th] = "raised"]
            /\ UNCHANGED <<trow, cursor>>
       ELSE /\ tpc' = [tpc EXCEPT ![th] = "write"]
            /\ trow' = [trow EXCEPT
                          ![th] = IF cursor.rows = <<>> THEN <<>>
                                  ELSE <<Head(cursor.rows)>>]
            /\ cursor' = IF cursor.rows = <<>> THEN cursor
                         ELSE ResultSet(TRUE, Tail(cursor.rows))
    /\ UNCHANGED <<impl, inputVars, storeVars, runVars, targs>>

\* The statements that follow the lookup, decided by the row it returned.
Write(th) ==
    /\ tpc[th] = "write"
    /\ LET c == targs[th]
           r == MACStorage_write(impl, mac_addresses, mac_movements, trow[th],
                                 c.mac, c.device, c.interface, c.now)
       IN /\ mac_addresses' = r.addr
          /\ mac_movements' = r.mov
          /\ tpc' = [tpc EXCEPT ![th] = IF r.ok THEN "done" ELSE "raised"]
          /\ durable' = WriteThrough(impl, durable, r.addr, r.mov)
    /\ cursor' = IF impl = "postgres" THEN NoResult ELSE cursor
    /\ UNCHANGED <<impl, inputVars, ncalls, last, seen, origin, runVars, targs,
                   trow>>

NextConc ==
    \E th \in Threads :
        \/ Begin(th)
        \/ Lookup(th)
        \/ Execute(th)
        \/ Fetch(th)
        \/ Write(th)

SpecConc == InitConc /\ [][NextConc]_vars

\* --------------------------------------- mac_tracker.py: the text functions
\* Text is a string; SubSeq, Len and \o act on its characters.
CharAt(s, i) == SubSeq(s, i, i)

Digits == {"0", "1", "2", "3", "4", "5", "6", "7", "8", "9"}

DigitValue(c) ==
    CASE c = "0" -> 0 [] c = "1" -> 1 [] c = "2" -> 2 [] c = "3" -> 3
      [] c = "4" -> 4 [] c = "5" -> 5 [] c = "6" -> 6 [] c = "7" -> 7
      [] c = "8" -> 8 [] c = "9" -> 9

\* int(s) returns (it raises ValueError otherwise): s is a run of decimal
\* digits.  Signs, blanks and underscores, which int() also accepts, do not
\* occur in the texts of the agents below.
IsDecimal(s) ==
    /\ Len(s) > 0
    /\ \A i \in 1..Len(s) : CharAt(s, i) \in Digits

\* int(s) for a decimal s.
RECURSIVE int(_)
int(s) ==
    IF Len(s) = 0 THEN 0
    ELSE 10 * int(SubSeq(s, 1, Len(s) - 1)) + DigitValue(CharAt(s, Len(s)))

\* str(n) / f"{n}" for n >= 0.
RECURSIVE str(_)
str(n) ==
    IF n < 10 THEN CharAt("0123456789", n + 1)
    ELSE str(n \div 10) \o CharAt("0123456789", (n % 10) + 1)

\* f"{n:x}" for n >= 0.
RECURSIVE hex(_)
hex(n) ==
    IF n < 16 THEN CharAt("0123456789abcdef", n + 1)
    ELSE hex(n \div 16) \o CharAt("0123456789abcdef", (n % 16) + 1)

\* f"{n:02x}": at least two digits, more when n > 255.
format_02x(n) == IF n < 16 THEN "0" \o hex(n) ELSE hex(n)

\* The parts of s from position 'start' on, scanning from position i.
RECURSIVE split_from(_, _, _)
split_from(s, i, start) ==
    IF i > Len(s) THEN <<SubSeq(s, start, Len(s))>>
    ELSE IF CharAt(s, i) = "."
    THEN <<SubSeq(s, start, i - 1)>> \o split_from(s, i + 1, i + 1)
    ELSE split_from(s, i + 1, start)

\* s.split('.')
split(s) == split_from(s, 1, 1)

\* ':'.join(parts)
RECURSIVE join(_)
join(parts) ==
    IF parts = <<>> THEN ""
    ELSE IF Len(parts) = 1 THEN parts[1]
    ELSE parts[1] \o ":" \o join(Tail(parts))

\* parts[-k:]
LastK(parts, k) ==
    IF Len(parts) <= k THEN parts
    ELSE SubSeq(parts, Len(parts) - k + 1, Len(parts))

\* ------------------------------------------- mac_tracker.py: get_mac_table
BRIDGE_MIB_PORT_OID == "1.3.6.1.2.1.17.4.3.1.2"
PORT_MAP_OID == "1.3.6.1.2.1.17.1.4.1.2"
IFINDEX_TO_NAME_OID == "1.3.6.1.2.1.31.1.1.1.1"

\* snmp_walk with 'continue' in place of 'break': an error is logged and
\* the varBinds that follow it are still yielded.
RECURSIVE snmp_walk_Continues(_)
snmp_walk_Continues(responses) ==
    IF responses = <<>> THEN <<>>
    ELSE IF Head(responses).kind = "varBind"
    THEN <<Head(responses)>> \o snmp_walk_Continues(Tail(responses))
    ELSE snmp_walk_Continues(Tail(responses))

\* snmp_walk: the generator yields the varBinds up to the first
\* errorIndication, errorStatus or exception, and then ends.
RECURSIVE snmp_walk(_)
snmp_walk(responses) ==
    IF responses = <<>> THEN <<>>
    ELSE IF Head(responses).kind = "varBind"
    THEN <<Head(responses)>> \o snmp_walk(Tail(responses))
    ELSE <<>>

\* d[k] = v on a dict held as a function.
Put(d, k, v) == [x \in (DOMAIN d) \cup {k} |-> IF x = k THEN v ELSE d[x]]

\* What a loop of get_mac_table has built, or that it raised.
Built(ok, value) == [ok |-> ok, value |-> value]

\* for oid, val in snmp_walk(ip, PORT_MAP_OID):
\*     port_map[int(oid...split('.')[-1])] = int(val.prettyPrint())
RECURSIVE port_map_loop(_, _)
port_map_loop(varBinds, port_map) ==
    IF varBinds = <<>> THEN Built(TRUE, port_map)
    ELSE LET last_part == LastK(split(Head(varBinds).oid), 1)[1]
             val == Head(varBinds).val
         IN IF ~IsDecimal(last_part) \/ ~IsDecimal(val)
            THEN Built(FALSE, port_map)
            ELSE port_map_loop(Tail(varBinds),
                               Put(port_map, int(last_part), int(val)))

\* for oid, val in snmp_walk(ip, IFINDEX_TO_NAME_OID):
\*     ifindex_map[int(oid...split('.')[-1])] = val.prettyPrint()
RECURSIVE ifindex_map_loop(_, _)
ifindex_map_loop(varBinds, ifindex_map) ==
    IF varBinds = <<>> THEN Built(TRUE, ifindex_map)
    ELSE LET last_part == LastK(split(Head(varBinds).oid), 1)[1]
         IN IF ~IsDecimal(last_part)
            THEN Built(FALSE, ifindex_map)
            ELSE ifindex_map_loop(Tail(varBinds),
                                  Put(ifindex_map, int(last_part),
                                      Head(varBinds).val))

\* mac_table[mac] = interface on a dict held as its items in insertion
\* order: a key that is present keeps its position.
SetItem(items, mac, interface) ==
    IF \E i \in 1..Len(items) : items[i].mac = mac
    THEN [i \in 1..Len(items) |->
            IF items[i].mac = mac THEN Item(mac, interface) ELSE items[i]]
    ELSE Append(items, Item(mac, interface))

\* The body of the third loop with a bridge port that is not in port_map
\* mapped to the name of no ifIndex, instead of being skipped.
mac_table_step_MapsDangling(items, port_map, ifindex_map, mac, bridge_port) ==
    IF bridge_port \in DOMAIN port_map
    THEN LET ifindex == port_map[bridge_port]
         IN SetItem(items, mac,
                    IF ifindex \in DOMAIN ifindex_map
                    THEN ifindex_map[ifindex]
                    ELSE "ifIndex-" \o str(ifindex))
    ELSE SetItem(items, mac, "ifIndex-None")

\* The body of the third loop with ifindex_map[ifindex] guarded by a test in
\* place of .get(ifindex, default): an ifIndex without a name is skipped.
mac_table_step_SkipsUnnamed(items, port_map, ifindex_map, mac, bridge_port) ==
    IF bridge_port \in DOMAIN port_map
    THEN LET ifindex == port_map[bridge_port]
         IN IF ifindex \in DOMAIN ifindex_map
            THEN SetItem(items, mac, ifindex_map[ifindex])
            ELSE items
    ELSE items

\* if bridge_port in port_map:
\*     ifindex = port_map[bridge_port]
\*     interface = ifindex_map.get(ifindex, f"ifIndex-{ifindex}")
\*     mac_table[mac] = interface
mac_table_step(items, port_map, ifindex_map, mac, bridge_port) ==
    IF bridge_port \in DOMAIN port_map
    THEN LET ifindex == port_map[bridge_port]
         IN SetItem(items, mac,
                    IF ifindex \in DOMAIN ifindex_map
                    THEN ifindex_map[ifindex]
                    ELSE "ifIndex-" \o str(ifindex))
    ELSE items

\* mac = ':'.join(f"{int(b):02x}" for b in mac_raw)
RECURSIVE format_octets(_)
format_octets(mac_raw) ==
    IF mac_raw = <<>> THEN <<>>
    ELSE <<format_02x(int(Head(mac_raw)))>> \o format_octets(Tail(mac_raw))

\* for oid, val in snmp_walk(ip, BRIDGE_MIB_PORT_OID): ...
RECURSIVE mac_table_loop(_, _, _, _)
mac_table_loop(varBinds, port_map, ifindex_map, items) ==
    IF varBinds = <<>> THEN Built(TRUE, items)
    ELSE LET val == Head(varBinds).val
             mac_raw == LastK(split(Head(varBinds).oid), 6)
         IN IF ~IsDecimal(val)
               \/ \E i \in 1..Len(mac_raw) : ~IsDecimal(mac_raw[i])
            THEN Built(FALSE, items)
            ELSE mac_table_loop(
                     Tail(varBinds), port_map, ifindex_map,
                     mac_table_step(items, port_map, ifindex_map,
                                    join(format_octets(mac_raw)), int(val)))

\* get_mac_table(ip) on a device that answers as 'agent': ok and the items of
\* mac_table, or not ok when an int() raised ValueError (nothing in the
\* function catches it).
get_mac_table(agent) ==
    LET port_map == port_map_loop(snmp_walk(agent.ports), <<>>)
        ifindex_map == ifindex_map_loop(snmp_walk(agent.names), <<>>)
    IN IF ~port_map.ok THEN Built(FALSE, <<>>)
       ELSE IF ~ifindex_map.ok THEN Built(FALSE, <<>>)
       ELSE LET mac_table_built ==
                    mac_table_loop(snmp_walk(agent.fdb), port_map.value,
                                   ifindex_map.value, <<>>)
            IN IF mac_table_built.ok THEN mac_table_built
               ELSE Built(FALSE, <<>>)

\* ------------------------------------ process_device on one walked device
VarBind(oid, val) == Response("varBind", oid, val)

ErrorResponse(kind) == Response(kind, "", "")

\* How a walk can end early: errorIndication (line 76), errorStatus (line
\* 79), an exception of the iteration (line 85).
ErrorKinds == {"errorIndication", "errorStatus", "exception"}

\* dot1dBasePortIfIndex of the device: bridge port 1 is ifIndex 10, bridge
\* port 2 is ifIndex 20 or 30; or no entry at all.
PortTables ==
    {<<>>}
    \cup {<<VarBind(PORT_MAP_OID \o ".1", "10"),
            VarBind(PORT_MAP_OID \o ".2", v)>> : v \in {"20", "30"}}

\* ifName of the device: names for ifIndex 10 and 20, none for 30.
NameTables ==
    {<<>>,
     <<VarBind(IFINDEX_TO_NAME_OID \o ".10", "Gi0/1"),
       VarBind(IFINDEX_TO_NAME_OID \o ".20", "Gi0/2")>>}

MacOid(last_octet) ==
    BRIDGE_MIB_PORT_OID \o ".170.187.204.221.238." \o last_octet

\* dot1dTpFdbPort of the device, in OID order: the first MAC on bridge port
\* 1, on bridge port 3 (which dot1dBasePortIfIndex does not list) or with a
\* value that is no number; then possibly the second MAC on port 2; then
\* possibly an entry whose last index component is 256.  One table starts
\* with an entry whose index has one component instead of six.
FdbTables ==
    {<<>>}
    \cup {<<VarBind(MacOid("1"), a)>> \o b \o c :
            a \in {"1", "3", "N/A"},
            b \in {<<>>, <<VarBind(MacOid("2"), "2")>>},
            c \in {<<>>, <<VarBind(MacOid("256"), "1")>>}}
    \cup {<<VarBind(BRIDGE_MIB_PORT_OID \o ".5", "1"),
            VarBind(MacOid("1"), "1"), VarBind(MacOid("2"), "2")>>}

\* The iteration of nextCmd over a table, with an error at position k.
WithError(table, k, kind) ==
    SubSeq(table, 1, k - 1) \o <<ErrorResponse(kind)>>
    \o SubSeq(table, k, Len(table))

\* The iterations over the tables: complete, or with one error somewhere.
Streams(tables, kind) ==
    tables
    \cup UNION {{WithError(t, k, kind) : k \in 1..(Len(t) + 1)} :
                  t \in tables \ {<<>>}}

Agents ==
    UNION {{Agent(p, n, f) : p \in Streams(PortTables, kind),
                             n \in Streams(NameTables, kind),
                             f \in Streams(FdbTables, kind)} :
             kind \in ErrorKinds}

\* main has reached the one device of the inventory, which answers as some
\* agent of Agents.
InitCorr ==
    /\ impl = "tracker"
    /\ InitStore
    /\ InitConcIdle
    /\ snmp \in Agents
    /\ text = ""
    /\ side = NoSides
    /\ pc = "loop"
    /\ devices = <<Device("sw1", TRUE)>>
    /\ idx = 1
    /\ mac_table = <<>>
    /\ now = 0
    /\ commits = 0
    /\ closes = 0
    /\ polls = <<>>
    /\ attempts = <<>>

\* process_device: mac_table = get_mac_table(ip) returns;
\* now = datetime.utcnow().
WalkReturns ==
    /\ pc = "loop"
    /\ idx <= Len(devices)
    /\ devices[idx].primary_ip4
    /\ LET r == get_mac_table(snmp)
       IN /\ r.ok
          /\ mac_table' = r.value
          /\ polls' = Append(polls, Poll(idx, TRUE, r.value))
    /\ \E t \in Times : t >= now /\ now' = t
    /\ pc' = "upserting"
    /\ UNCHANGED <<impl, inputVars, storeVars, concVars, devices, idx,
                   commits, closes, attempts>>

\* process_device: get_mac_table(ip) raises ValueError; the except clause
\* logs and the function returns to the loop of main.
WalkRaises ==
    /\ pc = "loop"
    /\ idx <= Len(devices)
    /\ devices[idx].primary_ip4
    /\ ~get_mac_table(snmp).ok
    /\ polls' = Append(polls, Poll(idx, FALSE, <<>>))
    /\ idx' = idx + 1
    /\ UNCHANGED <<impl, inputVars, storeVars, concVars, pc, devices,
                   mac_table, now, commits, closes, attempts>>

NextCorr ==
    \/ WalkReturns
    \/ WalkRaises
    \/ UpsertNext
    \/ UpsertRaises
    \/ DeviceDone

SpecCorr == InitCorr /\ [][NextCorr]_vars

\* ---------------------------------------------------------- run: the claims
\* The upsert calls made for the device at position k, in order.
AttemptsOf(k) == SelectSeq(attempts, LAMBDA a : a.idx = k)

\* Every device that has a management address has been polled.
AllDispatchedPolled ==
    \A k \in 1..Len(devices) :
        devices[k].primary_ip4 => \E i \in 1..Len(polls) : polls[i].idx = k

\* C7 (one commit, then one close): commit is called once, after the last
\* device has finished, close once, after the commit; the run cannot stop
\* before both and no failure of a device turns into a fatal error.
C7_OneCommitThenOneClose ==
    /\ commits = (IF pc \in {"close", "done"} THEN 1 ELSE 0)
    /\ closes = (IF pc = "done" THEN 1 ELSE 0)
    /\ (commits = 1 =>
          idx > Len(devices) /\ mac_table = <<>> /\ AllDispatchedPolled)
    /\ (pc = "fatal" => polls = <<>> /\ attempts = <<>>)
    /\ (pc \notin {"done", "fatal"} => ENABLED Next)

\* A finished run in which every device failed.
C7_Witness ==
    /\ pc = "done"
    /\ commits = 1 /\ closes = 1
    /\ Len(polls) = 2
    /\ ~polls[1].ok /\ ~polls[2].ok

\* C8 (device fault isolation): a device whose correlation raises is done
\* and contributes no upsert; every other polled device gets the upserts of
\* its own table, in order (all of them unless one of its own upserts
\* raised); and by the commit every device with an address has been polled,
\* once, in inventory order.
C8_DeviceFaultIsolation ==
    /\ \A i \in 1..Len(polls) :
          LET p == polls[i]
              made == AttemptsOf(p.idx)
          IN IF ~p.ok
             THEN made = <<>> /\ idx > p.idx
             ELSE /\ Len(made) <= Len(p.table)
                  /\ \A j \in 1..Len(made) :
                        /\ made[j].mac = p.table[j].mac
                        /\ made[j].interface = p.table[j].interface
                  /\ (idx > p.idx =>
                         \/ Len(made) = Len(p.table)
                         \/ ~made[Len(made)].ok)
    /\ \A i, j \in 1..Len(polls) : i < j => polls[i].idx < polls[j].idx
    /\ \A j \in 1..Len(attempts) :
          \E i \in 1..Len(polls) : polls[i].idx = attempts[j].idx
    /\ (pc \in {"close", "done"} => AllDispatchedPolled)

\* The first device failed, the second was polled and fully upserted.
C8_Witness ==
    /\ pc = "done"
    /\ Len(polls) = 2
    /\ ~polls[1].ok
    /\ polls[2].ok /\ Len(polls[2].table) = 2
    /\ Len(attempts) = 2
    /\ attempts[1].ok /\ attempts[2].ok
    /\ attempts[1].idx = polls[2].idx /\ attempts[2].idx = polls[2].idx

\* C9 (as claimed): a failing upsert skips only its own MAC: every MAC of the
\* table of a device that has been processed was upserted, and the devices
\* after it are polled.
C9_StorageFailureSkipsOneMac ==
    /\ \A i \in 1..Len(polls) :
          (polls[i].ok /\ idx > polls[i].idx) =>
              Len(AttemptsOf(polls[i].idx)) = Len(polls[i].table)
    /\ (pc \in {"close", "done"} => AllDispatchedPolled)

\* --------------------------------------------------- concurrency: the claims
AllReturned == \A th \in Threads : tpc[th] \in {"done", "raised"}

\* The concurrent calls made for one MAC.
CallsOf(mac) == {th \in Threads : targs[th].mac = mac}

\* C10 (as claimed): when all concurrent upserts of a MAC have returned, the
\* state is one that some serial order gives: the MAC has one location
\* record, it lies where the last movement record leads, there
\* are at most M-1 movement records for M upserts of the MAC, each movement
\* starts where the one before it ended (none is logged twice from one stale
\* "from"), and none has from = to.
C10_SameMacSerialized ==
    AllReturned =>
        \A mac \in MACs :
            CallsOf(mac) # {} =>
                LET movs == RowsOf(mac_movements, mac)
                    recs == RowsOf(mac_addresses, mac)
                    M == Cardinality(CallsOf(mac))
                           + (IF mac \in seen THEN 1 ELSE 0)
                IN /\ Len(recs) = 1
                   /\ Len(movs) <= M - 1
                   /\ \A i \in 1..(Len(movs) - 1) :
                         /\ movs[i + 1].from_device = movs[i].to_device
                         /\ movs[i + 1].from_if = movs[i].to_if
                   /\ (movs # <<>> =>
                         /\ recs[1].device = movs[Len(movs)].to_device
                         /\ recs[1].interface = movs[Len(movs)].to_if)
                   /\ \A i \in 1..Len(movs) :
                         \/ movs[i].from_device # movs[i].to_device
                         \/ movs[i].from_if # movs[i].to_if

\* What the store held before the concurrent callers began (see InitConc).
StoreBefore ==
    IF ncalls = 0 THEN DB(<<>>, <<>>, TRUE)
    ELSE MACStorage_upsert_mac(impl, <<>>, <<>>, last.mac, last.device,
                               last.interface, last.now)

\* What the call of one thread gives when it runs alone on that store.
Alone(th) ==
    MACStorage_upsert_mac(impl, StoreBefore.addr, StoreBefore.mov,
                          targs[th].mac, targs[th].device,
                          targs[th].interface, targs[th].now)

\* C11 (as claimed): when concurrent upserts of distinct MACs have all
\* returned, none has raised and each MAC has the location records and the
\* movement records that its upsert gives when it runs alone, whatever the
\* interleaving.
C11_DistinctMacsIndependent ==
    (/\ AllReturned
     /\ \A t1, t2 \in Threads : t1 # t2 => targs[t1].mac # targs[t2].mac)
    => \A th \in Threads :
          /\ tpc[th] = "done"
          /\ RowsOf(mac_addresses, targs[th].mac)
                = RowsOf(Alone(th).addr, targs[th].mac)
          /\ RowsOf(mac_movements, targs[th].mac)
                = RowsOf(Alone(th).mov, targs[th].mac)

\* ------------------------------------- mac_lookup.py: normalize, format
\* c.lower() for one character: the ASCII capitals change, nothing else in
\* the texts below does.
lower_char(c) ==
    LET hits == {i \in 1..26 : CharAt("ABCDEFGHIJKLMNOPQRSTUVWXYZ", i) = c}
    IN IF hits = {} THEN c
       ELSE CharAt("abcdefghijklmnopqrstuvwxyz", CHOOSE i \in hits : TRUE)

\* s.lower()
RECURSIVE lower(_)
lower(s) ==
    IF Len(s) = 0 THEN ""
    ELSE lower_char(CharAt(s, 1)) \o lower(SubSeq(s, 2, Len(s)))

\* s.replace(c, "") for a one-character c
RECURSIVE remove(_, _)
remove(s, c) ==
    IF Len(s) = 0 THEN ""
    ELSE (IF CharAt(s, 1) = c THEN "" ELSE CharAt(s, 1))
         \o remove(SubSeq(s, 2, Len(s)), c)

\* mac_input.lower().replace("-", "").replace(":", "").replace(".", "")
normalize_mac(mac_input) ==
    remove(remove(remove(lower(mac_input), "-"), ":"), ".")

\* [mac[i:i+2] for i in range(0, len(mac), 2)]
RECURSIVE pairs(_)
pairs(mac) ==
    IF Len(mac) = 0 THEN <<>>
    ELSE IF Len(mac) <= 2 THEN <<mac>>
    ELSE <<SubSeq(mac, 1, 2)>> \o pairs(SubSeq(mac, 3, Len(mac)))

\* format_mac with range(0, len(mac) - 1, 2): the last character of a text
\* of odd length is dropped.
format_mac_DropsOddTail(mac) ==
    join(pairs(SubSeq(normalize_mac(mac), 1,
                      2 * (Len(normalize_mac(mac)) \div 2))))

\* mac = normalize_mac(mac)
\* return ":".join(mac[i:i+2] for i in range(0, len(mac), 2))
format_mac(mac) == join(pairs(normalize_mac(mac)))

\* The characters of the MAC texts: hexadecimal digits in both cases and the
\* three delimiters.
TextChars == {"0", "a", "A", "F", ":", "-", "."}

\* The texts of at most n characters.
RECURSIVE Texts(_)
Texts(n) ==
    IF n = 0 THEN {""}
    ELSE Texts(n - 1)
         \cup {s \o c : s \in {x \in Texts(n - 1) : Len(x) = n - 1},
                         c \in TextChars}

\* The user gives some MAC text (full or partial).
InitLookup ==
    /\ impl = "postgres"
    /\ InitStore
    /\ InitRunIdle
    /\ InitConcIdle
    /\ snmp = NoAgent
    /\ side = NoSides
    /\ text \in Texts(MaxText)

\* mac_fragment = normalize_mac(mac_fragment)
Normalize ==
    /\ text' = normalize_mac(text)
    /\ UNCHANGED <<impl, storeVars, runVars, concVars, snmp, side>>

\* The text is put in the display form.
Format ==
    /\ text' = format_mac(text)
    /\ UNCHANGED <<impl, storeVars, runVars, concVars, snmp, side>>

NextLookup == Normalize \/ Format

SpecLookup == InitLookup /\ [][NextLookup]_vars

\* ------------------------------------------------------- lookup: the claims
\* C18 (normalization round trip): for every MAC text, with any of the
\* delimiters or none and in any letter case,
\* normalize(format(normalize(x))) = normalize(x).
C18_NormalizeRoundTrip ==
    normalize_mac(format_mac(normalize_mac(text))) = normalize_mac(text)

\* A text in display form with an odd number of digits, which only
\* format_mac produces: its round trip gives back its three digits.
C18_Witness ==
    /\ text = "a0:f"
    /\ normalize_mac(text) = "a0f"
    /\ format_mac(normalize_mac(text)) = text

\* -------------------------------------------------- correlation: the claims
\* Position of the first response that is not a varBind (Len + 1 if none).
FirstError(stream) ==
    Min({i \in 1..Len(stream) : stream[i].kind # "varBind"}
        \cup {Len(stream) + 1})

\* The walked table: the entries the agent gave before the walk ended.
Walked(stream) == SubSeq(stream, 1, FirstError(stream) - 1)

\* The last component of the OID of an entry, as a number.
KeyOf(e) == int(LastK(split(e.oid), 1)[1])

\* The walked bridge-port map has an entry for bridge port p / its ifIndex.
HasPort(p) ==
    \E i \in 1..Len(Walked(snmp.ports)) : KeyOf(Walked(snmp.ports)[i]) = p

IfIndexOf(p) ==
    LET P == Walked(snmp.ports)
        i == CHOOSE i \in 1..Len(P) :
                 /\ KeyOf(P[i]) = p
                 /\ \A j \in (i + 1)..Len(P) : KeyOf(P[j]) # p
    IN int(P[i].val)

\* The walked name table has a name for ifIndex x / that name.
HasName(x) ==
    \E i \in 1..Len(Walked(snmp.names)) : KeyOf(Walked(snmp.names)[i]) = x

NameOf(x) ==
    LET N == Walked(snmp.names)
        i == CHOOSE i \in 1..Len(N) :
                 /\ KeyOf(N[i]) = x
                 /\ \A j \in (i + 1)..Len(N) : KeyOf(N[j]) # x
    IN N[i].val

\* The MAC text of a forwarding-table entry.
MacOf(e) == join(format_octets(LastK(split(e.oid), 6)))

\* The interface a forwarding-table entry on a listed bridge port stands for.
InterfaceOf(e) ==
    IF HasName(IfIndexOf(int(e.val))) THEN NameOf(IfIndexOf(int(e.val)))
    ELSE "ifIndex-" \o str(IfIndexOf(int(e.val)))

\* The example of the claim: ports {1->10, 2->20}, names {10->Gi0/1,
\* 20->Gi0/2}, the two MACs on ports 1 and 2.
ExampleAgent ==
    Agent(<<VarBind(PORT_MAP_OID \o ".1", "10"),
            VarBind(PORT_MAP_OID \o ".2", "20")>>,
          <<VarBind(IFINDEX_TO_NAME_OID \o ".10", "Gi0/1"),
            VarBind(IFINDEX_TO_NAME_OID \o ".20", "Gi0/2")>>,
          <<VarBind(MacOid("1"), "1"), VarBind(MacOid("2"), "2")>>)

\* C13 (correlation): the table get_mac_table returns holds, for every entry
\* of the walked forwarding table whose bridge port is in the walked
\* bridge-port map, its MAC with the name of the resolved ifIndex, or with
\* ifIndex-<n> when the walked name table has no name for it, and holds
\* nothing else; on the example it is the two MACs on Gi0/1 and Gi0/2.
C13_Correlation ==
    \A i \in 1..Len(polls) :
        polls[i].ok =>
            LET T == polls[i].table
                F == Walked(snmp.fdb)
            IN /\ {T[j] : j \in 1..Len(T)}
                    = {Item(MacOf(F[k]), InterfaceOf(F[k])) :
                         k \in {n \in 1..Len(F) : HasPort(int(F[n].val))}}
               /\ \A j, k \in 1..Len(T) : j # k => T[j].mac # T[k].mac
               /\ (snmp = ExampleAgent =>
                      T = <<Item("aa:bb:cc:dd:ee:01", "Gi0/1"),
                            Item("aa:bb:cc:dd:ee:02", "Gi0/2")>>)

\* A device whose second bridge port leads to an ifIndex without a name:
\* the device is done, both MACs were correlated and upserted, the first under
\* its interface name and the second under the synthetic name.
C13_Witness ==
    /\ pc = "loop" /\ idx = 2
    /\ Len(polls) = 1 /\ polls[1].ok
    /\ Len(polls[1].table) = 2
    /\ polls[1].table[1] = Item("aa:bb:cc:dd:ee:01", "Gi0/1")
    /\ polls[1].table[2].mac = "aa:bb:cc:dd:ee:02"
    /\ polls[1].table[2].interface = "ifIndex-30"
    /\ Len(mac_addresses) = 2

\* A walked forwarding-table entry whose bridge port is a number that the
\* walked bridge-port map does not list.
Dangling(e) == IsDecimal(e.val) /\ ~HasPort(int(e.val))

\* C14 (dangling bridge port): the MAC of a forwarding-table entry whose
\* bridge port is not in the bridge-port map is in no correlated table and
\* in no upsert call.
C14_DanglingPortSkipped ==
    \A k \in 1..Len(Walked(snmp.fdb)) :
        Dangling(Walked(snmp.fdb)[k]) =>
            /\ \A i \in 1..Len(polls) :
                  \A j \in 1..Len(polls[i].table) :
                      polls[i].table[j].mac # MacOf(Walked(snmp.fdb)[k])
            /\ \A j \in 1..Len(attempts) :
                  attempts[j].mac # MacOf(Walked(snmp.fdb)[k])
            /\ \A j \in 1..Len(mac_addresses) :
                  mac_addresses[j].mac # MacOf(Walked(snmp.fdb)[k])

\* The first MAC is on bridge port 3, which the complete bridge-port map does
\* not list; the device is done and only the second MAC was upserted.
C14_Witness ==
    /\ pc = "loop" /\ idx = 2
    /\ Len(Walked(snmp.ports)) = 2
    /\ Len(Walked(snmp.fdb)) >= 2
    /\ Walked(snmp.fdb)[1].val = "3"
    /\ Len(polls) = 1 /\ polls[1].ok
    /\ Len(attempts) = 1
    /\ attempts[1].mac = "aa:bb:cc:dd:ee:02" /\ attempts[1].ok

\* A forwarding-table entry that decodes: six index components after the
\* column OID, each a number in 0..255, and a numeric bridge port.
EntryDecodes(e) ==
    LET parts == split(e.oid)
    IN /\ Len(parts) = Len(split(BRIDGE_MIB_PORT_OID)) + 6
       /\ \A i \in 1..Len(parts) : IsDecimal(parts[i])
       /\ \A i \in (Len(parts) - 5)..Len(parts) : int(parts[i]) <= 255
       /\ IsDecimal(e.val)

\* C15 (as claimed): an entry that does not decode is skipped alone: the
\* correlation of the device does not fail, the entry gives no item, and
\* every entry that decodes and resolves is in the table.
C15_DecodeErrorsSkippedAlone ==
    \A i \in 1..Len(polls) :
        /\ polls[i].ok
        /\ \A k \in 1..Len(Walked(snmp.fdb)) :
              LET e == Walked(snmp.fdb)[k]
                  in_table == \E j \in 1..Len(polls[i].table) :
                                  polls[i].table[j].mac = MacOf(e)
              IN IF EntryDecodes(e)
                 THEN HasPort(int(e.val)) => in_table
                 ELSE ~in_table

\* Some walk of the device ended on an error, or gave nothing.
HasWalkError ==
    \E stream \in {snmp.ports, snmp.names, snmp.fdb} :
        FirstError(stream) <= Len(stream) \/ Walked(stream) = <<>>

\* int() raises on some entry that was walked.
SomeWalkedEntryRaises ==
    \E k \in 1..Len(Walked(snmp.fdb)) : ~IsDecimal(Walked(snmp.fdb)[k].val)

\* C16 (walk errors are not failures): when a walk of the device ended on an
\* error (or gave nothing), get_mac_table still returns unless an entry that
\* was walked makes it raise; the table it returns has the MACs of the
\* forwarding-table entries walked before the error whose bridge port was
\* walked before the error, and no other; and these MACs are the upsert
\* calls made for the device.
C16_WalkErrorsNotFailures ==
    HasWalkError =>
        /\ (pc = "loop" /\ polls = <<>> /\ ~SomeWalkedEntryRaises)
               => get_mac_table(snmp).ok
        /\ \A i \in 1..Len(polls) :
              /\ ~polls[i].ok => SomeWalkedEntryRaises
              /\ polls[i].ok =>
                    /\ {polls[i].table[j].mac : j \in 1..Len(polls[i].table)}
                         = {MacOf(Walked(snmp.fdb)[k]) :
                              k \in {n \in 1..Len(Walked(snmp.fdb)) :
                                       HasPort(int(Walked(snmp.fdb)[n].val))}}
                    /\ Len(attempts) <= Len(polls[i].table)
                    /\ \A j \in 1..Len(attempts) :
                          attempts[j].mac = polls[i].table[j].mac
                    /\ (idx > polls[i].idx /\ \A j \in 1..Len(attempts) :
                                                 attempts[j].ok)
                           => Len(attempts) = Len(polls[i].table)

\* The forwarding-table walk ended on an error after its first entry, with
\* a second entry not walked: the device is done, the first MAC was upserted.
C16_Witness ==
    /\ pc = "loop" /\ idx = 2
    /\ FirstError(snmp.fdb) = 2 /\ Len(snmp.fdb) >= 3
    /\ FirstError(snmp.ports) > Len(snmp.ports) /\ Len(snmp.ports) = 2
    /\ Len(polls) = 1 /\ polls[1].ok
    /\ Len(polls[1].table) = 1
    /\ Len(attempts) = 1 /\ attempts[1].ok
    /\ attempts[1].mac = "aa:bb:cc:dd:ee:01"
    /\ Len(mac_addresses) = 1

\* ------------------------------------------------------ session: the claims
\* C12 (as claimed): before the commit of the run nothing that its upserts
\* wrote is committed, with each backend; so a run that stops before the
\* commit leaves nothing committed.
C12_NothingDurableBeforeCommit ==
    commits = 0 => durable = Tables(<<>>, <<>>)

\* Every row of the first table is, unchanged, at the same position in the
\* second.
IsPrefix(s, t) == Len(s) <= Len(t) /\ SubSeq(t, 1, Len(s)) = s

\* The MACs that have a row in a table.
MacsIn(table) == {table[i].mac : i \in 1..Len(table)}

\* C17 (append-only log, permanent records): no step of a session (upsert
\* of any implementation, commit, close, abort) changes or removes a
\* movement record already written, in the session's view and in what is
\* committed: the log before the step is a prefix of the log after it; and
\* every MAC that has a location record before the step has one after it.
C17_LogAppendOnly ==
    [][/\ IsPrefix(mac_movements, mac_movements')
       /\ IsPrefix(durable.mov, durable'.mov)
       /\ MacsIn(mac_addresses) \subseteq MacsIn(mac_addresses')
       /\ MacsIn(durable.addr) \subseteq MacsIn(durable'.addr)]_vars

\* A closed session that logged two movements; they are committed.
C17_Witness ==
    /\ pc = "done"
    /\ Len(mac_movements) = 2
    /\ mac_movements[1].moved_at <= mac_movements[2].moved_at
    /\ durable = Tables(mac_addresses, mac_movements)
    /\ Len(mac_addresses) = 1

\* ------------------------------------------------------- upsert: the claims
\* This step is an upsert call that returned normally.
UpsertReturned == ncalls' = ncalls + 1 /\ last'.ok

\* The record the call of this step finds (only where RowsOf is not empty).
Found == RowsOf(mac_addresses, last'.mac)[1]

FoundElsewhere ==
    /\ RowsOf(mac_addresses, last'.mac) # <<>>
    /\ (Found.device # last'.device \/ Found.interface # last'.interface)

FoundSamePlace ==
    /\ RowsOf(mac_addresses, last'.mac) # <<>>
    /\ Found.device = last'.device
    /\ Found.interface = last'.interface

\* C1 (movement detection): an upsert of a MAC whose location record is on
\* another (device, interface) appends exactly one movement record, from the
\* recorded pair to the observed pair with moved_at = observedAt, and leaves
\* the MAC's one location record on the observed pair with last_seen =
\* observedAt.
C1_MovementDetection ==
    [][(UpsertReturned /\ FoundElsewhere) =>
        /\ mac_movements' =
             Append(mac_movements,
                    MoveRow(last'.mac, Found.device, Found.interface,
                            last'.device, last'.interface, last'.now))
        /\ Len(RowsOf(mac_addresses', last'.mac)) = 1
        /\ RowsOf(mac_addresses', last'.mac)[1].device = last'.device
        /\ RowsOf(mac_addresses', last'.mac)[1].interface = last'.interface
        /\ RowsOf(mac_addresses', last'.mac)[1].last_seen = last'.now]_vars

\* A movement has just been logged for the latest call.
C1_Witness ==
    /\ last.ok
    /\ mac_movements # <<>>
    /\ LET m == mac_movements[Len(mac_movements)]
       IN /\ m.mac = last.mac
          /\ m.to_device = last.device /\ m.to_if = last.interface
          /\ m.moved_at = last.now
          /\ (m.from_device # m.to_device \/ m.from_if # m.to_if)
    /\ RowsOf(mac_addresses, last.mac)[1].device = last.device
    /\ RowsOf(mac_addresses, last.mac)[1].interface = last.interface

\* C2 (idempotence): an upsert of a MAC on the (device, interface) its record
\* already holds, with observedAt not before the recorded last_seen, adds no
\* movement record and changes nothing in the table but that record's
\* last_seen, which becomes observedAt.
C2_Idempotence ==
    [][(UpsertReturned /\ FoundSamePlace /\ last'.now >= Found.last_seen) =>
        /\ mac_movements' = mac_movements
        /\ Len(mac_addresses') = Len(mac_addresses)
        /\ \A i \in 1..Len(mac_addresses) :
              mac_addresses'[i] =
                 IF mac_addresses[i].mac = last'.mac
                 THEN [mac_addresses[i] EXCEPT !.last_seen = last'.now]
                 ELSE mac_addresses[i]]_vars

\* Three upserts of one MAC on one place: one record, no movement, and
\* last_seen has advanced past first_seen.
C2_Witness ==
    /\ ncalls = 3
    /\ Len(mac_addresses) = 1
    /\ mac_movements = <<>>
    /\ mac_addresses[1].last_seen > mac_addresses[1].first_seen
    /\ mac_addresses[1].last_seen = last.now

\* C3 (first sighting): an upsert of a MAC that has no location record adds
\* the record (mac, device, interface, first_seen = last_seen = observedAt)
\* and adds no movement record.
C3_FirstSighting ==
    [][(UpsertReturned /\ RowsOf(mac_addresses, last'.mac) = <<>>) =>
        /\ mac_addresses' =
             Append(mac_addresses,
                    AddrRow(last'.mac, last'.device, last'.interface,
                            last'.now, last'.now))
        /\ mac_movements' = mac_movements]_vars

\* The second MAC has just been sighted for the first time.
C3_Witness ==
    /\ ncalls = 2
    /\ last.ok
    /\ Len(mac_addresses) = 2
    /\ mac_addresses[2].mac = last.mac
    /\ mac_addresses[2].first_seen = last.now
    /\ mac_addresses[2].last_seen = last.now
    /\ mac_movements = <<>>

\* C4 (one record per MAC): every MAC that some upsert has returned for has
\* exactly one location record, and every other MAC has none.
C4_OneRecordPerMac ==
    \A m \in MACs :
        Cardinality(Matching(mac_addresses, m)) = IF m \in seen THEN 1 ELSE 0

\* Both MACs upserted, one of them more than once.
C4_Witness ==
    /\ ncalls >= 3
    /\ seen = MACs
    /\ Len(mac_addresses) = 2

\* C5 (as claimed): every location record has last_seen >= first_seen,
\* whatever observedAt the callers pass.
C5_LastSeenNotBeforeFirstSeen ==
    \A i \in 1..Len(mac_addresses) :
        mac_addresses[i].last_seen >= mac_addresses[i].first_seen

\* C6 (movement iff relocation): a step adds to mac_movements if and only if
\* it is an upsert that finds a location record on another (device,
\* interface); and no movement record has from = to.
C6_MovementIffRelocated ==
    /\ [](\A i \in 1..Len(mac_movements) :
             \/ mac_movements[i].from_device # mac_movements[i].to_device
             \/ mac_movements[i].from_if # mac_movements[i].to_if)
    /\ [][(mac_movements' # mac_movements)
             <=> (UpsertReturned /\ FoundElsewhere)]_vars

\* Three upserts of which exactly one found the MAC elsewhere.
C6_Witness ==
    /\ ncalls = 3
    /\ Len(mac_movements) = 1
    /\ (mac_movements[1].from_device # mac_movements[1].to_device
        \/ mac_movements[1].from_if # mac_movements[1].to_if)

\* C19 (movement chain): for every MAC that has been upserted, its movement
\* records in the order written form a chain: the first starts at the place
\* of the MAC's first sighting, each later one starts where the one before
\* it ended, and the last ends at the place of the MAC's location record.
C19_MovementChain ==
    \A m \in seen :
        LET movs == RowsOf(mac_movements, m)
            recs == RowsOf(mac_addresses, m)
        IN movs # <<>> =>
              /\ Sighting(m, movs[1].from_device, movs[1].from_if) \in origin
              /\ \A i \in 1..(Len(movs) - 1) :
                    /\ movs[i + 1].from_device = movs[i].to_device
                    /\ movs[i + 1].from_if = movs[i].to_if
              /\ Len(recs) = 1
              /\ recs[1].device = movs[Len(movs)].to_device
              /\ recs[1].interface = movs[Len(movs)].to_if

\* One MAC sighted and then moved twice: a chain of two movement records.
C19_Witness ==
    /\ ncalls = 3
    /\ Len(mac_addresses) = 1
    /\ Len(mac_movements) = 2
    /\ Cardinality(origin) = 1
    /\ mac_movements[2].from_device = mac_movements[1].to_device
    /\ mac_movements[2].from_if = mac_movements[1].to_if
    /\ (mac_movements[2].to_device # mac_movements[1].from_device
        \/ mac_movements[2].to_if # mac_movements[1].from_if)

\* --------------------------------------------------- side by side: claims
\* The tables without their timestamps.
Strip(tables) ==
    [addr |-> [i \in 1..Len(tables.addr) |->
                  Sighting(tables.addr[i].mac, tables.addr[i].device,
                           tables.addr[i].interface)],
     mov |-> [i \in 1..Len(tables.mov) |->
                 [mac |-> tables.mov[i].mac,
                  from_device |-> tables.mov[i].from_device,
                  from_if |-> tables.mov[i].from_if,
                  to_device |-> tables.mov[i].to_device,
                  to_if |-> tables.mov[i].to_if]]]

\* The decision an upsert took, read from what it wrote.
Decision(before, after) ==
    IF Len(after.addr) > Len(before.addr) THEN "new"
    ELSE IF Len(after.mov) > Len(before.mov) THEN "moved"
    ELSE "seen again"

\* C20 (backend equivalence): given the same upserts from empty tables, the
\* three implementations hold the same location records and the same
\* movement records after every upsert, timestamps aside, and take the same
\* decision in every upsert.
C20_BackendEquivalence ==
    /\ [](\A i, j \in Impls : Strip(side[i]) = Strip(side[j]))
    /\ [][\A i, j \in Impls :
             Decision(side[i], side'[i]) = Decision(side[j], side'[j])]_vars

\* Three upserts of one MAC: new, moved, seen again, by all three, with the
\* clock of the tracker's caller differing from MACStorage's.
C20_Witness ==
    /\ ncalls = 3
    /\ \A i \in Impls : Len(side[i].addr) = 1 /\ Len(side[i].mov) = 1
    /\ side["tracker"].addr[1].last_seen # side["mongo"].addr[1].last_seen
    /\ side["postgres"].addr[1].last_seen > side["postgres"].mov[1].moved_at

====
